---------------------------- MODULE Spec2Model ----------------------------
(***************************************************************************)
(* A model of the graph_similarity repository:                             *)
(*   - closest_node and graphs2bipartite_weight (profile matching with     *)
(*     in-place zero padding),                                             *)
(*   - shortest_path_dist (destructive draining of fewest-hop paths),      *)
(*   - hits / normalization (power iteration with L2 normalisation).       *)
(*                                                                         *)
(* Real numbers.  Distances and weights are kept in fixed point, in units  *)
(* of 1/Milli: Euclidean(u, v) is floor(Milli * sqrt(sum of squares)), the *)
(* epsilon 0.001 of the bipartite weights is one unit.  For the integer    *)
(* vectors of the model two different sums of squares below 250000 give    *)
(* two different fixed-point distances, as they give two different floats. *)
(* HITS scores are kept exactly, as num / sqrt(den2), with a NaN flag.     *)
(***************************************************************************)
EXTENDS Integers, Sequences, FiniteSets, TLC

\* ------------------------------------------------------------------ bounds
\* Profile vectors: at most MaxLen weights, each in 1..MaxWeight.
MaxLen == 2
MaxWeight == 1
\* Profile vectors chosen freely over the two lists of one call.
MaxProfiles == 3
\* shortest_path_dist: graphs on the nodes 0..NumNodes-1 with edge weights in
\* 1..MaxWeight, matchings of at most MaxPairs pairs.
NumNodes == 3
MaxPairs == 2
\* Twin graphs (one graph, built twice): TwinNodes nodes, weights 1..TwinWeight.
TwinNodes == 4
TwinWeight == 2
\* hits: matrices of at most MaxDim rows and columns with entries in
\* 0..MaxEntry, at most MaxSteps steps.
MaxDim == 3
MaxEntry == 1
MaxSteps == 2

\* One unit of the fixed-point reals is 1/Milli (the 0.001 of the weights).
Milli == 1000

VARIABLES
    \* closest_node / graphs2bipartite_weight
    op,                 \* the function called
    same,               \* TRUE when nl1 and nl2 are one and the same list object
    nl1, nl2,           \* the two profile lists (mutable Python lists of lists)
    nl1_pre, nl2_pre,   \* their values when the call was made
    pi, pj,             \* positions of the outer and the inner loop (1-based)
    dist_list,
    closest_node_list,
    G_bp,               \* [nodes: set of labels, edges: {u, v} -> weight]
    ppc,                \* position in the called function
    \* shortest_path_dist
    G1, G2,             \* the two graphs: [nodes, edges: {u, v} -> weight]
    G1_pre, G2_pre,     \* the graphs when the call was made
    best_fit,           \* list of signed-label pairs
    source_pair, sink_pair,
    G1_source, G1_sink, G2_source, G2_sink,
    G1_weight_list, G2_weight_list,
    it,                 \* the loop variable i: passes of the loop completed
    result,             \* <<>> until the function returns, then <<distance>>
    spc,                \* position in shortest_path_dist
    \* hits
    a,                  \* the matrix: a sequence of rows of one length
    k, normalize,       \* the parameters of hits
    step,               \* the loop variable i: passes of the loop completed
    authorityScore, hubScore,
    hpc                 \* position in hits

pvars == <<op, same, nl1, nl2, nl1_pre, nl2_pre, pi, pj, dist_list,
           closest_node_list, G_bp, ppc>>

svars == <<G1, G2, G1_pre, G2_pre, best_fit, source_pair, sink_pair, G1_source,
           G1_sink, G2_source, G2_sink, G1_weight_list, G2_weight_list, it,
           result, spc>>

hvars == <<a, k, normalize, step, authorityScore, hubScore, hpc>>

vars == <<pvars, svars, hvars>>

\* ----------------------------------------------------------- pure helpers
RECURSIVE SumSeq(_)
SumSeq(s) == IF s = <<>> THEN 0 ELSE Head(s) + SumSeq(Tail(s))

\* floor(sqrt(x)) by bisection: lo*lo <= x < hi*hi throughout (mid*mid <= x
\* is tested as mid <= x \div mid, which no product overflows).
RECURSIVE SqrtBetween(_, _, _)
SqrtBetween(x, lo, hi) ==
    IF hi - lo <= 1 THEN lo
    ELSE LET mid == (lo + hi) \div 2
         IN  IF mid <= x \div mid THEN SqrtBetween(x, mid, hi)
                                  ELSE SqrtBetween(x, lo, mid)

ISqrt(x) == SqrtBetween(x, 0, x + 1)

\* Sum of the squared differences of two vectors of one length.
SqDist(u, v) == SumSeq([x \in 1..Len(u) |-> (u[x] - v[x]) * (u[x] - v[x])])

\* Faulty variant of Euclidean: the squared distance (sqeuclidean), no root.
SqEuclidean(u, v) == SqDist(u, v) * Milli

\* spatial.distance.euclidean on two vectors of one length, in units of 1/Milli.
Euclidean(u, v) == ISqrt(SqDist(u, v) * Milli * Milli)

\* Faulty variant of Pad: ones appended instead of zeros.
PadWrong(v, n) == v \o [x \in 1..n |-> 1]

\* [i.append(0) for k in range(n)]: n zeros appended, none when n <= 0.
Pad(v, n) == v \o [x \in 1..n |-> 0]

\* 1/(d + 0.001) for a distance d in units of 1/Milli, in the same units.
InverseWeight(d) == (Milli * Milli) \div (d + 1)

Min(S) == CHOOSE x \in S : \A y \in S : x <= y
Max(S) == CHOOSE x \in S : \A y \in S : x >= y

\* Faulty variant of IndexOfMin: the last position of the minimum.
IndexOfMinLast(dl) ==
    LET m == Min({dl[x] : x \in 1..Len(dl)})
    IN  Max({x \in 1..Len(dl) : dl[x] = m}) - 1

\* dist_list.index(min(dist_list)): the first position of the minimum, 0-based.
IndexOfMin(dl) ==
    LET m == Min({dl[x] : x \in 1..Len(dl)})
    IN  Min({x \in 1..Len(dl) : dl[x] = m}) - 1

\* --------------------------------------------------------- profile inputs
\* Profile vectors as get_neighbor_edges builds them: weights, sorted descending.
Profiles ==
    UNION {{v \in [1..n -> 1..MaxWeight] : \A x \in 1..(n - 1) : v[x] >= v[x + 1]}
           : n \in 0..MaxLen}

EmptyGraph == [nodes |-> {}, edges |-> <<>>]

\* The state a call starts in.
CallState(f, s, la, lb) ==
    /\ op = f
    /\ same = s
    /\ nl1 = la /\ nl2 = lb
    /\ nl1_pre = la /\ nl2_pre = lb
    /\ pi = 1 /\ pj = 1
    /\ dist_list = <<>>
    /\ closest_node_list = <<>>
    /\ G_bp = EmptyGraph
    /\ ppc = "start"

\* Two lists of freely chosen profiles, or one list passed twice: as two equal
\* copies, or as one object (f(nl, nl)).
InitProfiles ==
    \E f \in {"closest_node", "graphs2bipartite_weight"} :
        \/ \E na \in 0..MaxProfiles : \E nb \in 0..(MaxProfiles - na) :
               \E la \in [1..na -> Profiles], lb \in [1..nb -> Profiles] :
                   CallState(f, FALSE, la, lb)
        \/ \E n \in 0..MaxProfiles : \E la \in [1..n -> Profiles], s \in BOOLEAN :
               CallState(f, s, la, la)

\* ------------------------------------------------- in-place zero padding
\* The two lists after the vector at nl1[i] was replaced by v: one list object
\* shows the change under both names.
PadFirst(i, v) ==
    LET new == [nl1 EXCEPT ![i] = v]
    IN  <<new, IF same THEN new ELSE nl2>>

PadSecond(j, v) ==
    LET new == [nl2 EXCEPT ![j] = v]
    IN  <<IF same THEN new ELSE nl1, new>>

\* The lists after the shorter of nl1[i], nl2[j] was padded to the longer one's
\* length (the elif/else of closest_node, the if/else of graphs2bipartite_weight).
Padded(i, j) ==
    LET vi == nl1[i]
        vj == nl2[j]
    IN  IF Len(vi) < Len(vj) THEN PadFirst(i, Pad(vi, Len(vj) - Len(vi)))
        ELSE PadSecond(j, Pad(vj, Len(vi) - Len(vj)))

\* ------------------------------------------------------------ closest_node
CnStart ==
    /\ ppc = "start" /\ op = "closest_node"
    /\ ppc' = "loop"
    /\ UNCHANGED <<op, same, nl1, nl2, nl1_pre, nl2_pre, pi, pj, dist_list,
                   closest_node_list, G_bp>>
    /\ UNCHANGED <<svars, hvars>>

\* One pass of the inner loop: pad, then append the distance of i and j.
CnCompare ==
    /\ ppc = "loop" /\ op = "closest_node"
    /\ pi <= Len(nl1) /\ pj <= Len(nl2)
    /\ LET after == IF Len(nl1[pi]) = Len(nl2[pj]) THEN <<nl1, nl2>>
                    ELSE Padded(pi, pj)
       IN  /\ nl1' = after[1]
           /\ nl2' = after[2]
           /\ dist_list' = Append(dist_list, Euclidean(after[1][pi], after[2][pj]))
    /\ pj' = pj + 1
    /\ UNCHANGED <<op, same, nl1_pre, nl2_pre, pi, closest_node_list, G_bp, ppc>>
    /\ UNCHANGED <<svars, hvars>>

\* The end of one pass of the outer loop; min([]) raises ValueError.
CnSelect ==
    /\ ppc = "loop" /\ op = "closest_node"
    /\ pi <= Len(nl1) /\ pj > Len(nl2)
    /\ IF dist_list = <<>>
       THEN /\ ppc' = "raised"
            /\ UNCHANGED <<closest_node_list, pi, pj, dist_list>>
       ELSE /\ closest_node_list' =
                   Append(closest_node_list, <<pi - 1, IndexOfMin(dist_list)>>)
            /\ pi' = pi + 1
            /\ pj' = 1
            /\ dist_list' = <<>>
            /\ ppc' = ppc
    /\ UNCHANGED <<op, same, nl1, nl2, nl1_pre, nl2_pre, G_bp>>
    /\ UNCHANGED <<svars, hvars>>

CnReturn ==
    /\ ppc = "loop" /\ op = "closest_node"
    /\ pi > Len(nl1)
    /\ ppc' = "done"
    /\ UNCHANGED <<op, same, nl1, nl2, nl1_pre, nl2_pre, pi, pj, dist_list,
                   closest_node_list, G_bp>>
    /\ UNCHANGED <<svars, hvars>>

\* ------------------------------------------------- graphs2bipartite_weight
\* G.add_edge(u, v, weight=w) on an undirected graph: the edge {u, v} is
\* created, or its weight overwritten.
AddEdge(G, u, v, w) ==
    [G EXCEPT !.nodes = @ \cup {u, v},
              !.edges = [e \in (DOMAIN @) \cup {{u, v}} |->
                            IF e = {u, v} THEN w ELSE @[e]]]

BpStart ==
    /\ ppc = "start" /\ op = "graphs2bipartite_weight"
    /\ G_bp' = [nodes |-> {i : i \in 1..Len(nl1)} \cup {-j : j \in 1..Len(nl2)},
                edges |-> <<>>]
    /\ ppc' = "loop"
    /\ UNCHANGED <<op, same, nl1, nl2, nl1_pre, nl2_pre, pi, pj, dist_list,
                   closest_node_list>>
    /\ UNCHANGED <<svars, hvars>>

\* One pass of the inner loop.  The first if writes the edge of two vectors of
\* one length; the if/else that follows pads (by nothing when the lengths are
\* equal) and writes the edge.
BpCompare ==
    /\ ppc = "loop" /\ op = "graphs2bipartite_weight"
    /\ pi <= Len(nl1) /\ pj <= Len(nl2)
    /\ LET first == IF Len(nl1[pi]) = Len(nl2[pj])
                    THEN AddEdge(G_bp, pi, -pj,
                                 InverseWeight(Euclidean(nl1[pi], nl2[pj])))
                    ELSE G_bp
           after == Padded(pi, pj)
       IN  /\ nl1' = after[1]
           /\ nl2' = after[2]
           /\ G_bp' = AddEdge(first, pi, -pj,
                              InverseWeight(Euclidean(after[1][pi], after[2][pj])))
    /\ IF pj < Len(nl2) THEN pi' = pi /\ pj' = pj + 1
                        ELSE pi' = pi + 1 /\ pj' = 1
    /\ UNCHANGED <<op, same, nl1_pre, nl2_pre, dist_list, closest_node_list, ppc>>
    /\ UNCHANGED <<svars, hvars>>

BpReturn ==
    /\ ppc = "loop" /\ op = "graphs2bipartite_weight"
    /\ pi > Len(nl1) \/ Len(nl2) = 0
    /\ ppc' = "done"
    /\ UNCHANGED <<op, same, nl1, nl2, nl1_pre, nl2_pre, pi, pj, dist_list,
                   closest_node_list, G_bp>>
    /\ UNCHANGED <<svars, hvars>>

\* ------------------------------------------------------ weighted graphs
Edges(G) == DOMAIN G.edges

\* All graphs on the nodes 0..n-1 with edge weights in 1..w (nx.Graph: no
\* self-loops, one edge per pair of nodes).
Graphs(n, w) ==
    LET nodes == 0..(n - 1)
        pairs == {e \in SUBSET nodes : Cardinality(e) = 2}
    IN  UNION {{[nodes |-> nodes, edges |-> f] : f \in [E -> 1..w]} : E \in SUBSET pairs}

Adj(G, u) == {v \in G.nodes : {u, v} \in Edges(G)}

\* Breadth-first search from a frontier: the number of hops to t, -1 when t
\* cannot be reached.
RECURSIVE Hops(_, _, _, _, _)
Hops(G, frontier, seen, t, d) ==
    IF t \in frontier THEN d
    ELSE IF frontier = {} THEN -1
    ELSE LET next == UNION {Adj(G, u) : u \in frontier} \ seen
         IN  Hops(G, next, seen \cup next, t, d + 1)

\* nx.has_path(G, s, t)
HasPath(G, s, t) == Hops(G, {s}, {s}, t, 0) >= 0

\* nx.shortest_path(G, source=s, target=t) returns a path of fewest hops (no
\* weight is passed); which one, among several, follows from the order the
\* graph's adjacency was built in, which a graph's node and edge sets do not
\* determine: every fewest-hop path is a possible result.
ShortestPaths(G, s, t) ==
    LET d == Hops(G, {s}, {s}, t, 0)
    IN  {p \in [1..(d + 1) -> G.nodes] :
            /\ p[1] = s
            /\ p[d + 1] = t
            /\ \A x \in 1..d : {p[x], p[x + 1]} \in Edges(G)}

PathEdges(p) == {{p[x], p[x + 1]} : x \in 1..(Len(p) - 1)}

\* sum(w) of the weights read along the path.
PathWeight(G, p) == SumSeq([x \in 1..(Len(p) - 1) |-> G.edges[{p[x], p[x + 1]}]])

\* Faulty variant of RemovePath: the path's edges are read and kept.
KeepPath(G, p) == G

\* G.remove_edge along the path.
RemovePath(G, p) ==
    [G EXCEPT !.edges = [e \in Edges(G) \ PathEdges(p) |-> G.edges[e]]]

\* ------------------------------------------------------ shortest_path_dist
\* The pairs a matching of the bipartite graph is made of: node i of the first
\* graph is labelled i+1, node j of the second -(j+1), in either order.
SignedPairs(n) ==
    {<<la, -lb>> : la \in 1..n, lb \in 1..n} \cup {<<-lb, la>> : la \in 1..n, lb \in 1..n}

CallSPD(g1, g2, bf, at) ==
    /\ G1 = g1 /\ G2 = g2
    /\ G1_pre = g1 /\ G2_pre = g2
    /\ best_fit = bf
    /\ source_pair = <<>> /\ sink_pair = <<>>
    /\ G1_source = 0 /\ G1_sink = 0 /\ G2_source = 0 /\ G2_sink = 0
    /\ G1_weight_list = <<>> /\ G2_weight_list = <<>>
    /\ it = 0
    /\ result = <<>>
    /\ spc = at

\* source_pair = random.choice(best_fit); sink_pair = random.choice(best_fit).
\* random.choice of an empty list raises IndexError.
Sample ==
    /\ spc = "sample"
    /\ IF best_fit = <<>>
       THEN /\ spc' = "raised"
            /\ UNCHANGED <<source_pair, sink_pair>>
       ELSE /\ \E la \in 1..Len(best_fit), lb \in 1..Len(best_fit) :
                   /\ source_pair' = best_fit[la]
                   /\ sink_pair' = best_fit[lb]
            /\ spc' = "resample"
    /\ UNCHANGED <<G1, G2, G1_pre, G2_pre, best_fit, G1_source, G1_sink, G2_source,
                   G2_sink, G1_weight_list, G2_weight_list, it, result>>
    /\ UNCHANGED <<pvars, hvars>>

\* One pass of: while source_pair == sink_pair: sink_pair = random.choice(best_fit)
Resample ==
    /\ spc = "resample"
    /\ source_pair = sink_pair
    /\ \E lb \in 1..Len(best_fit) : sink_pair' = best_fit[lb]
    /\ UNCHANGED <<G1, G2, G1_pre, G2_pre, best_fit, source_pair, G1_source, G1_sink,
                   G2_source, G2_sink, G1_weight_list, G2_weight_list, it, result,
                   spc>>
    /\ UNCHANGED <<pvars, hvars>>

\* The signed labels decoded to the nodes of the two graphs.
Node1(pair) == IF pair[1] > 0 THEN pair[1] - 1 ELSE pair[2] - 1
Node2(pair) == IF pair[1] > 0 THEN -pair[2] - 1 ELSE -pair[1] - 1

Decode ==
    /\ spc = "resample"
    /\ source_pair # sink_pair
    /\ G1_source' = Node1(source_pair)
    /\ G2_source' = Node2(source_pair)
    /\ G1_sink' = Node1(sink_pair)
    /\ G2_sink' = Node2(sink_pair)
    /\ spc' = "loop"
    /\ UNCHANGED <<G1, G2, G1_pre, G2_pre, best_fit, source_pair, sink_pair,
                   G1_weight_list, G2_weight_list, it, result>>
    /\ UNCHANGED <<pvars, hvars>>

Iter == Len(best_fit) * Len(best_fit)

\* One pass of the loop in which both graphs have a path: in each graph the
\* path's weights are summed, its edges removed and the sum recorded.
Drain ==
    /\ spc = "loop"
    /\ it < Iter
    /\ HasPath(G1, G1_source, G1_sink) /\ HasPath(G2, G2_source, G2_sink)
    /\ \E s1 \in ShortestPaths(G1, G1_source, G1_sink) :
           /\ G1_weight_list' = Append(G1_weight_list, PathWeight(G1, s1))
           /\ G1' = RemovePath(G1, s1)
    /\ \E s2 \in ShortestPaths(G2, G2_source, G2_sink) :
           /\ G2_weight_list' = Append(G2_weight_list, PathWeight(G2, s2))
           /\ G2' = RemovePath(G2, s2)
    /\ it' = it + 1
    /\ UNCHANGED <<G1_pre, G2_pre, best_fit, source_pair, sink_pair, G1_source,
                   G1_sink, G2_source, G2_sink, result, spc>>
    /\ UNCHANGED <<pvars, hvars>>

\* Faulty variant of Break: the first graph is drained before the second
\* graph is found to be exhausted.
BreakAfterFirst ==
    /\ spc = "loop"
    /\ it < Iter
    /\ ~(HasPath(G1, G1_source, G1_sink) /\ HasPath(G2, G2_source, G2_sink))
    /\ IF HasPath(G1, G1_source, G1_sink)
       THEN \E s1 \in ShortestPaths(G1, G1_source, G1_sink) :
                /\ G1_weight_list' = Append(G1_weight_list, PathWeight(G1, s1))
                /\ G1' = RemovePath(G1, s1)
       ELSE UNCHANGED <<G1, G1_weight_list>>
    /\ spc' = "return"
    /\ UNCHANGED <<G2, G1_pre, G2_pre, best_fit, source_pair, sink_pair,
                   G1_source, G1_sink, G2_source, G2_sink,
                   G2_weight_list, it, result>>
    /\ UNCHANGED <<pvars, hvars>>

\* The three breaks: graph 1 alone is exhausted, graph 2 alone, or both.
Break ==
    /\ spc = "loop"
    /\ it < Iter
    /\ ~(HasPath(G1, G1_source, G1_sink) /\ HasPath(G2, G2_source, G2_sink))
    /\ spc' = "return"
    /\ UNCHANGED <<G1, G2, G1_pre, G2_pre, best_fit, source_pair, sink_pair,
                   G1_source, G1_sink, G2_source, G2_sink, G1_weight_list,
                   G2_weight_list, it, result>>
    /\ UNCHANGED <<pvars, hvars>>

\* range(iter) is used up.
LoopEnd ==
    /\ spc = "loop"
    /\ it >= Iter
    /\ spc' = "return"
    /\ UNCHANGED <<G1, G2, G1_pre, G2_pre, best_fit, source_pair, sink_pair,
                   G1_source, G1_sink, G2_source, G2_sink, G1_weight_list,
                   G2_weight_list, it, result>>
    /\ UNCHANGED <<pvars, hvars>>

\* return spatial.distance.euclidean(G1_weight_list, G2_weight_list)
Return ==
    /\ spc = "return"
    /\ result' = <<Euclidean(G1_weight_list, G2_weight_list)>>
    /\ spc' = "done"
    /\ UNCHANGED <<G1, G2, G1_pre, G2_pre, best_fit, source_pair, sink_pair,
                   G1_source, G1_sink, G2_source, G2_sink, G1_weight_list,
                   G2_weight_list, it>>
    /\ UNCHANGED <<pvars, hvars>>

\* --------------------------------------------------------------------- hits
\* A float64 vector, exactly: component i is num[i] / sqrt(den2), or every
\* component is NaN (nan).  The vectors of hits are NaN in all components or in
\* none: 0/0 in normalization makes all of them NaN, and a product with a NaN
\* vector is NaN in every row.
Vector(n, d) == [nan |-> FALSE, num |-> n, den2 |-> d]
NaNVector(len) == [nan |-> TRUE, num |-> [i \in 1..len |-> 0], den2 |-> 1]

\* np.ones(n)
Ones(n) == Vector([i \in 1..n |-> 1], 1)

Rows(m) == Len(m)
Cols(m) == Len(m[1])

\* np.transpose(a)
Transpose(m) == [j \in 1..Cols(m) |-> [i \in 1..Rows(m) |-> m[i][j]]]

\* np.dot(m, v) for a 2-d m and a 1-d v is defined when m has Len(v) columns;
\* otherwise numpy raises ValueError.
DotDefined(m, v) == Cols(m) = Len(v.num)

Dot(m, v) ==
    IF v.nan THEN NaNVector(Rows(m))
    ELSE Vector([i \in 1..Rows(m) |->
                    SumSeq([j \in 1..Cols(m) |-> m[i][j] * v.num[j]])],
                v.den2)

\* The sum of the squares of the numerators: the squared norm times den2.
SquareSum(v) == SumSeq([i \in 1..Len(v.num) |-> v.num[i] * v.num[i]])

\* normalization(score): score / sqrt(sum of squares).  The division of a
\* numpy array by 0.0 raises nothing: 0.0/0.0 is NaN.
Normalization(score) ==
    IF score.nan \/ SquareSum(score) = 0 THEN NaNVector(Len(score.num))
    ELSE Vector(score.num, SquareSum(score))

CallHits(m, steps, norm, at) ==
    /\ a = m
    /\ k = steps
    /\ normalize = norm
    /\ step = 0
    /\ authorityScore = Ones(ISqrt(Rows(m) * Cols(m)))
    /\ hubScore = Ones(ISqrt(Rows(m) * Cols(m)))
    /\ hpc = at

\* authorityScore = np.dot(aT, hubScore), then normalized.
UpdateAuthority ==
    /\ hpc = "authority"
    /\ step < k
    /\ IF DotDefined(Transpose(a), hubScore)
       THEN /\ authorityScore' =
                   IF normalize THEN Normalization(Dot(Transpose(a), hubScore))
                                ELSE Dot(Transpose(a), hubScore)
            /\ hpc' = "hub"
       ELSE /\ hpc' = "raised"
            /\ UNCHANGED authorityScore
    /\ UNCHANGED <<a, k, normalize, step, hubScore>>
    /\ UNCHANGED <<pvars, svars>>

\* hubScore = np.dot(a, authorityScore), then normalized.
UpdateHub ==
    /\ hpc = "hub"
    /\ IF DotDefined(a, authorityScore)
       THEN /\ hubScore' =
                   IF normalize THEN Normalization(Dot(a, authorityScore))
                                ELSE Dot(a, authorityScore)
            /\ step' = step + 1
            /\ hpc' = "authority"
       ELSE /\ hpc' = "raised"
            /\ UNCHANGED <<hubScore, step>>
    /\ UNCHANGED <<a, k, normalize, authorityScore>>
    /\ UNCHANGED <<pvars, svars>>

HitsReturn ==
    /\ hpc = "authority"
    /\ step >= k
    /\ hpc' = "done"
    /\ UNCHANGED <<a, k, normalize, step, authorityScore, hubScore>>
    /\ UNCHANGED <<pvars, svars>>

\* --------------------------------------------------------- specifications
IdleProfiles == CallState("none", FALSE, <<>>, <<>>)

IdleSPD == CallSPD(EmptyGraph, EmptyGraph, <<>>, "idle")

IdleHits == CallHits(<<<<0>>>>, 0, FALSE, "idle")

\* A call of closest_node or of graphs2bipartite_weight.
InitProfileCall == InitProfiles /\ IdleSPD /\ IdleHits

NextProfiles ==
    \/ CnStart \/ CnCompare \/ CnSelect \/ CnReturn
    \/ BpStart \/ BpCompare \/ BpReturn

SpecProfiles == InitProfileCall /\ [][NextProfiles]_vars

\* The matching that pairs every node i of the first graph with node i of the
\* second, each pair written as (i+1, -(i+1)) or as (-(i+1), i+1).
IdentityMatching(n, positive_first) ==
    [x \in 1..n |-> IF positive_first THEN <<x, -x>> ELSE <<-x, x>>]

\* A call of shortest_path_dist: on two graphs and a list of at most MaxPairs
\* signed pairs (a matching, or any other list of pairs), or on a graph and its
\* twin (the same nodes, edges and weights in a second object) with every node
\* i matched with node i.
InitSPD ==
    /\ IdleProfiles
    /\ IdleHits
    /\ \/ \E g1 \in Graphs(NumNodes, MaxWeight), g2 \in Graphs(NumNodes, MaxWeight) :
              \E n \in 0..MaxPairs : \E bf \in [1..n -> SignedPairs(NumNodes)] :
                  CallSPD(g1, g2, bf, "sample")
       \/ \E g \in Graphs(TwinNodes, TwinWeight), o \in BOOLEAN :
              CallSPD(g, g, IdentityMatching(TwinNodes, o), "sample")

NextSPD == Sample \/ Resample \/ Decode \/ Drain \/ Break \/ LoopEnd \/ Return

SpecSPD == InitSPD /\ [][NextSPD]_vars

\* A call of hits on a matrix of any shape.
InitHits ==
    /\ IdleProfiles
    /\ IdleSPD
    /\ \E r \in 1..MaxDim, c \in 1..MaxDim :
           \E m \in [1..r -> [1..c -> 0..MaxEntry]] :
               \E steps \in 1..MaxSteps, norm \in BOOLEAN :
                   CallHits(m, steps, norm, "authority")

NextHits == UpdateAuthority \/ UpdateHub \/ HitsReturn

SpecHits == InitHits /\ [][NextHits]_vars

\* ------------------------------------------------- claims on the profiles
\* The zero-padded distance of two vectors as the specification defines it:
\* both are read as 0 beyond their end; nothing is written.
ZeroPaddedSq(u, v) ==
    LET n == IF Len(u) < Len(v) THEN Len(v) ELSE Len(u)
        At(w, x) == IF x <= Len(w) THEN w[x] ELSE 0
    IN  SumSeq([x \in 1..n |-> (At(u, x) - At(v, x)) * (At(u, x) - At(v, x))])

ZeroPaddedDistance(u, v) == ISqrt(ZeroPaddedSq(u, v) * Milli * Milli)

\* The smallest 1-based index of nl whose vector minimises the zero-padded
\* squared distance to u.
FirstNearest(u, nl) ==
    Min({lb \in 1..Len(nl) :
            \A c \in 1..Len(nl) : ZeroPaddedSq(u, nl[lb]) <= ZeroPaddedSq(u, nl[c])})

\* C1: when closest_node or graphs2bipartite_weight has returned, every vector
\* of nl1 and of nl2 has the length and the elements it had before the call.
C1_PaddingNeverMutates ==
    ppc = "done" => (nl1 = nl1_pre /\ nl2 = nl2_pre)

\* C2 as stated: closest_node(nl, nl) on a non-empty nl returns [i, i] at
\* every index i.
C2_SelfMatchIsIdentity ==
    (ppc = "done" /\ op = "closest_node" /\ nl1_pre = nl2_pre /\ Len(nl1_pre) > 0)
        => /\ Len(closest_node_list) = Len(nl1_pre)
           /\ \A i \in 1..Len(nl1_pre) : closest_node_list[i] = <<i - 1, i - 1>>

\* C2 as amended: closest_node(nl, nl) returns at index i the pair [i, b] with
\* b the smallest index whose profile equals nl[i] up to trailing zeros; this
\* is [i, i] exactly when no earlier profile equals nl[i] up to trailing zeros.
C2_SelfMatchIsFirstEqual ==
    (ppc = "done" /\ op = "closest_node" /\ nl1_pre = nl2_pre /\ Len(nl1_pre) > 0)
        => /\ Len(closest_node_list) = Len(nl1_pre)
           /\ \A i \in 1..Len(nl1_pre) :
                  closest_node_list[i] =
                      <<i - 1, Min({lb \in 1..Len(nl1_pre) :
                                ZeroPaddedSq(nl1_pre[i], nl1_pre[lb]) = 0}) - 1>>

\* A self-match of a list with a repeated profile has returned: a later node
\* was mapped to the earlier one, another one to itself.
C2_Witness ==
    /\ ppc = "done" /\ op = "closest_node" /\ nl1_pre = nl2_pre
    /\ Len(closest_node_list) >= 2
    /\ \E i \in 1..Len(closest_node_list) : closest_node_list[i][2] < i - 1
    /\ \E i \in 2..Len(closest_node_list) : closest_node_list[i][2] = i - 1

\* C3: closest_node returns one pair [i, b] per index i of nl1, in increasing
\* i, with b the smallest index of nl2 that minimises the zero-padded squared
\* distance of the vectors as they were before the call.
C3_ClosestOfOriginals ==
    (ppc = "done" /\ op = "closest_node" /\ Len(nl2_pre) > 0)
        => /\ Len(closest_node_list) = Len(nl1_pre)
           /\ \A i \in 1..Len(nl1_pre) :
                  closest_node_list[i] =
                      <<i - 1, FirstNearest(nl1_pre[i], nl2_pre) - 1>>

\* closest_node has returned after padding vectors of both lists, and chose
\* an index other than the first.
C3_Witness ==
    /\ ppc = "done" /\ op = "closest_node"
    /\ nl1 # nl1_pre /\ nl2 # nl2_pre
    /\ \E i \in 1..Len(closest_node_list) : closest_node_list[i][2] > 0

\* C8: graphs2bipartite_weight returns the complete bipartite graph over the
\* labels i+1 and -(j+1), with |nei1|*|nei2| edges, each joining a positive and
\* a negative label, the edge (i+1, -(j+1)) weighing 1/(d + 0.001) for d the
\* zero-padded distance of the profiles as they were before the call.
C8_CompleteBipartite ==
    (ppc = "done" /\ op = "graphs2bipartite_weight")
        => /\ G_bp.nodes = {i : i \in 1..Len(nl1_pre)} \cup {-j : j \in 1..Len(nl2_pre)}
           /\ DOMAIN G_bp.edges =
                  {{i, -j} : i \in 1..Len(nl1_pre), j \in 1..Len(nl2_pre)}
           /\ Cardinality(DOMAIN G_bp.edges) = Len(nl1_pre) * Len(nl2_pre)
           /\ \A i \in 1..Len(nl1_pre), j \in 1..Len(nl2_pre) :
                  G_bp.edges[{i, -j}] =
                      (Milli * Milli) \div
                          (ZeroPaddedDistance(nl1_pre[i], nl2_pre[j]) + 1)

\* graphs2bipartite_weight has returned a graph with an edge written twice
\* (equal lengths) and an edge of two vectors of different lengths.
C8_Witness ==
    /\ ppc = "done" /\ op = "graphs2bipartite_weight"
    /\ \E i \in 1..Len(nl1_pre), j \in 1..Len(nl2_pre) :
           Len(nl1_pre[i]) = Len(nl2_pre[j]) /\ nl1_pre[i] # <<>>
    /\ \E i \in 1..Len(nl1_pre), j \in 1..Len(nl2_pre) :
           /\ Len(nl1_pre[i]) # Len(nl2_pre[j])
           /\ ZeroPaddedSq(nl1_pre[i], nl2_pre[j]) > 1

\* ------------------------------------------ claims on shortest_path_dist
HasPath1 == HasPath(G1, G1_source, G1_sink)
HasPath2 == HasPath(G2, G2_source, G2_sink)

\* best_fit pairs every node i of the first graph with node i of the second.
IsIdentityMatching ==
    /\ \A x \in 1..Len(best_fit) : Node1(best_fit[x]) = Node2(best_fit[x])
    /\ {Node1(best_fit[x]) : x \in 1..Len(best_fit)} = G1_pre.nodes

\* best_fit is a matching: no node of either graph is in two of its pairs.
IsMatching ==
    \A x \in 1..Len(best_fit), l \in 1..Len(best_fit) :
        x # l => /\ Node1(best_fit[x]) # Node1(best_fit[l])
                 /\ Node2(best_fit[x]) # Node2(best_fit[l])

\* C4: on two identical graphs (equal node sets, edge sets and weights, in
\* separate objects) with every node i matched with node i, the two graphs
\* have equal edge sets and equal recorded sums at every iteration, and the
\* distance returned is 0.
C4_TwinsAtDistanceZero ==
    (G1_pre = G2_pre /\ IsIdentityMatching /\ spc \in {"loop", "return", "done"})
        => /\ Edges(G1) = Edges(G2)
           /\ G1_weight_list = G2_weight_list
           /\ spc = "done" => result = <<0>>

\* C5: shortest_path_dist always ends: no state is reached in which the
\* function has not ended and no step changes its state (the sampling loop can
\* always draw a sink pair other than the source pair, the draining loop is
\* bounded).  An IndexError raised on an empty list is counted as an end.
C5_AlwaysTerminates ==
    spc \in {"done", "raised"} \/ ENABLED <<NextSPD>>_vars

\* C9: a pass of the loop that starts with a graph without a path from its
\* source to its sink leaves the loop, removes no edge and records no sum;
\* the function then returns the distance of the sums recorded so far.
C9_ExhaustionStops ==
    [][/\ (spc = "loop" /\ it < Iter /\ ~(HasPath1 /\ HasPath2))
           => /\ spc' = "return"
              /\ G1' = G1 /\ G2' = G2
              /\ G1_weight_list' = G1_weight_list
              /\ G2_weight_list' = G2_weight_list
       /\ spc = "return"
           => /\ spc' = "done"
              /\ G1_weight_list' = G1_weight_list
              /\ G2_weight_list' = G2_weight_list
              /\ result' = <<ZeroPaddedDistance(G1_weight_list, G2_weight_list)>>
      ]_vars

\* shortest_path_dist has returned after at least one draining pass, stopped
\* by exactly one of the graphs having no path left, the bound not reached,
\* with the distance of unequal recorded sums.
C9_Witness ==
    /\ spc = "done"
    /\ it >= 1 /\ it < Iter
    /\ HasPath1 # HasPath2
    /\ result # <<0>>

\* C10: the two lists of recorded sums have one length, the number of passes
\* completed with a path in both graphs; edges are only removed, never added
\* or reweighted; and when best_fit is a matching of disjoint pairs every
\* such pass removes an edge from each graph, so that the number of recorded
\* sums is at most min(|E1|, |E2|, |best_fit|^2) of the graphs as passed.
C10_DrainingInvariant ==
    /\ [](/\ Len(G1_weight_list) = it
          /\ Len(G2_weight_list) = it
          /\ IsMatching =>
                 /\ it <= Cardinality(Edges(G1_pre))
                 /\ it <= Cardinality(Edges(G2_pre))
                 /\ it <= Iter)
    /\ [][/\ Edges(G1') \subseteq Edges(G1)
          /\ Edges(G2') \subseteq Edges(G2)
          /\ \A e \in Edges(G1') : G1'.edges[e] = G1.edges[e]
          /\ \A e \in Edges(G2') : G2'.edges[e] = G2.edges[e]
          /\ (IsMatching /\ it' = it + 1) =>
                 /\ Cardinality(Edges(G1')) < Cardinality(Edges(G1))
                 /\ Cardinality(Edges(G2')) < Cardinality(Edges(G2))
         ]_vars

\* With a matching of disjoint pairs, two passes drained a path from each
\* graph, the second pass a path of more than one edge.
C10_Witness ==
    /\ spc = "done"
    /\ IsMatching
    /\ it = 2
    /\ G1_weight_list[2] > G1_weight_list[1]

\* ------------------------------------------------------- claims on hits
\* C6: with normalize=True, hits never returns score vectors holding NaN (a
\* zero vector handed to normalization ends the computation in an error).
C6_ZeroVectorIsAnError ==
    (hpc = "done" /\ normalize) => (~authorityScore.nan /\ ~hubScore.nan)

\* C7: hits never returns authority and hub vectors for a matrix that is not
\* square.
C7_NonSquareIsAnError ==
    hpc = "done" => Rows(a) = Cols(a)

=============================================================================
